---- MODULE Spec2Model ----
(***************************************************************************)
(* umi-http: the driver of src/main.rs that resets Umi-OCR's BatchDOC      *)
(* tabs over the HTTP control endpoint, submits one document, starts the   *)
(* processing and watches the derived output file.                         *)
(*                                                                         *)
(* The program is one sequential task (run, called by main); the remote    *)
(* application and the filesystem are its environment.  A text is a        *)
(* sequence of one-character strings; "U+0663" stands for one non-ASCII    *)
(* decimal digit (ARABIC-INDIC DIGIT THREE), which the regex class \d      *)
(* accepts and str::parse::<u16> rejects.                                  *)
(*                                                                         *)
(* Spec is the run against the remote application; FairSpec and WatchSpec  *)
(* add the fairness of its steps.  TextSpec hands listings of any shape to *)
(* the two regexes, PathSpec hands paths of any shape to the derivation of *)
(* the output path.                                                        *)
(***************************************************************************)
EXTENDS Integers, Sequences, FiniteSets

VARIABLES
    pc,             \* the position of run()/main()
    pages,          \* remote: the open tabs, in the order the listing shows them
    pending,        \* remote: commands acknowledged and not applied yet
    padded,         \* remote: the listing right-aligns its index column
    processing,     \* remote: docStart has been applied
    removed,        \* history: the tabs a --del_page command removed
    indices,        \* run: Vec<u16> collected from the first listing
    closed,         \* run: iterations of the close loop completed
    attempt,        \* verify: the loop variable
    fetches,        \* history: listings fetched by verify
    delays,         \* history: sleeps of verify
    trace,          \* history: the remote commands and settle delays of run, in order
    branch,         \* watch_output: the branch chosen at line 95
    observed,       \* watch_output: what the last path.exists() answered
    file,           \* filesystem: the derived output file
    last_modified,  \* watch_output: the recorded modification time
    current_modified, \* watch_output: the modification time of the last poll
    result,         \* what run() returned
    exitCode,       \* what main() passed to process::exit
    listing,        \* a listing handed to the two regexes on its own
    found,          \* what the regex of verify answered for that listing
    path,           \* the argument of run
    separator,      \* std::path::MAIN_SEPARATOR of the build
    normalized,     \* run: path after line 134
    watched         \* run: the argument of watch_output, line 145

\* The variables of the text and path functions, which are exercised apart from
\* the run (TextSpec, PathSpec) and stay idle in it.
FunctionVars == <<listing, found, path, separator, normalized, watched>>

vars == <<pc, pages, pending, padded, processing, removed, indices, closed,
          attempt, fetches, delays, trace, branch, observed, file,
          last_modified, current_modified, result, exitCode, FunctionVars>>

-----------------------------------------------------------------------------
(* Bounds of the model.                                                    *)

MaxPages == 3
MaxMtime == 2
MaxLines == 2
MaxPathLen == 4

-----------------------------------------------------------------------------
(* Constants of the program.                                               *)

TAB_NAME == <<"B", "a", "t", "c", "h", "D", "O", "C">>
MAX_ATTEMPTS == 3
U16_MAX == 65535

None == -1
NoFile == -1

-----------------------------------------------------------------------------
(* Texts.                                                                  *)

AsciiDigit == {"0", "1", "2", "3", "4", "5", "6", "7", "8", "9"}
Digit == AsciiDigit \cup {"U+0663"}
Space == {" ", "\t", "\n", "\r"}

DigitValue(c) ==
    CASE c = "0" -> 0 [] c = "1" -> 1 [] c = "2" -> 2 [] c = "3" -> 3
      [] c = "4" -> 4 [] c = "5" -> 5 [] c = "6" -> 6 [] c = "7" -> 7
      [] c = "8" -> 8 [] c = "9" -> 9

DigitChar(d) == CHOOSE c \in AsciiDigit : DigitValue(c) = d

RECURSIVE IndexToString(_)
IndexToString(n) ==
    IF n < 10 THEN <<DigitChar(n)>>
    ELSE IndexToString(n \div 10) \o <<DigitChar(n % 10)>>

\* One step of the digit loop of u16::from_str: checked_mul(10), checked_add(d).
CheckedStep(acc, d) ==
    IF acc = None \/ acc * 10 + d > U16_MAX THEN None ELSE acc * 10 + d

\* The loop over the digits; acc is bound to its value at every step.
RECURSIVE DecimalValue(_, _)
DecimalValue(digits, acc) ==
    IF digits = <<>> THEN acc
    ELSE CHOOSE v \in {DecimalValue(Tail(digits), next) :
                          next \in {CheckedStep(acc, DigitValue(Head(digits)))}} : TRUE

\* str::parse::<u16>: an optional "+", then ASCII digits that fit 16 bits.
ParseU16(s) ==
    LET body == IF s # <<>> /\ Head(s) = "+" THEN Tail(s) ELSE s
    IN  IF body = <<>> \/ \E i \in 1..Len(body) : body[i] \notin AsciiDigit
        THEN None
        ELSE DecimalValue(body, 0)

HasLiteral(text, p, lit) ==
    /\ p + Len(lit) - 1 <= Len(text)
    /\ \A i \in 1..Len(lit) : text[p + i - 1] = lit[i]

RECURSIVE RunEnd(_, _, _)
RunEnd(text, p, class) ==
    IF p <= Len(text) /\ text[p] \in class THEN RunEnd(text, p + 1, class) ELSE p

IsLineStart(text, p) == p = 1 \/ text[p - 1] = "\n"

StaleLiteral == <<"B", "a", "t", "c", "h", "D", "O", "C", "_">>

\* (?m)^(\d+)\s+BatchDOC_ tried at position p: the capture and where the search
\* goes on.
StaleMatchAt(text, p) ==
    LET q == RunEnd(text, p, Digit)
        r == RunEnd(text, q, Space)
    IN  IF IsLineStart(text, p) /\ q > p /\ r > q /\ HasLiteral(text, r, StaleLiteral)
        THEN [ok |-> TRUE, cap |-> SubSeq(text, p, q - 1), end |-> r + Len(StaleLiteral)]
        ELSE [ok |-> FALSE, cap |-> <<>>, end |-> p + 1]

\* captures_iter: the non-overlapping matches, leftmost first; group 1 of each.
\* The match at p is bound to its value before the search goes on.
RECURSIVE CapturesIter(_, _)
CapturesIter(text, p) ==
    IF p > Len(text) THEN <<>>
    ELSE CHOOSE caps \in {(IF m.ok THEN <<m.cap>> ELSE <<>>) \o CapturesIter(text, m.end) :
                             m \in {StaleMatchAt(text, p)}} : TRUE

\* filter_map(|cap| cap.get(1).and_then(|index| index.as_str().parse().ok()))
RECURSIVE FilterMapParse(_)
FilterMapParse(caps) ==
    IF caps = <<>> THEN <<>>
    ELSE LET v == ParseU16(Head(caps))
         IN  (IF v = None THEN <<>> ELSE <<v>>) \o FilterMapParse(Tail(caps))

\* lines 119-123, on the text of the listing.
ExtractIndices(text) ==
    CHOOSE ix \in {FilterMapParse(CapturesIter(t, 1)) : t \in {text}} : TRUE

\* The search is anchored at the start of a line.
FreshRegexFinds_LineStart(text) ==
    \E p \in 1..Len(text) :
        /\ IsLineStart(text, p)
        /\ HasLiteral(text, p, TAB_NAME \o <<"_">>)
        /\ p + Len(TAB_NAME) + 1 <= Len(text)
        /\ text[p + Len(TAB_NAME) + 1] \in Digit

\* BatchDOC_\d+ found anywhere in the text.
FreshRegexFinds(text) ==
    \E p \in 1..Len(text) :
        /\ HasLiteral(text, p, TAB_NAME \o <<"_">>)
        /\ p + Len(TAB_NAME) + 1 <= Len(text)
        /\ text[p + Len(TAB_NAME) + 1] \in Digit

Rev(s) == [i \in 1..Len(s) |-> s[Len(s) + 1 - i]]

-----------------------------------------------------------------------------
(* The remote application: its tabs, its listing and its commands.  A tab  *)
(* has the index --del_page takes, a template name and a serial number;    *)
(* the listing shows one line per tab, "<index> <name>_<serial>".          *)

Kinds == {"BatchDOC", "BatchOCR"}

KindName(k) ==
    IF k = "BatchDOC" THEN TAB_NAME
    ELSE <<"B", "a", "t", "c", "h", "O", "C", "R">>

PageLine(e, pad) ==
    (IF pad THEN <<" ">> ELSE <<>>) \o IndexToString(e.idx) \o <<" ">>
        \o KindName(e.kind) \o <<"_">> \o IndexToString(e.num) \o <<"\n">>

RECURSIVE Listing(_, _)
Listing(ps, pad) ==
    IF ps = <<>> THEN <<>>
    ELSE PageLine(Head(ps), pad) \o Listing(Tail(ps), pad)

IsDoc(e) == e.kind = "BatchDOC"

DocCount(ps) == Cardinality({i \in 1..Len(ps) : IsDoc(ps[i])})

Serials(ps) == {0} \cup {ps[i].num : i \in {j \in 1..Len(ps) : IsDoc(ps[j])}}

MaxOf(S) == CHOOSE m \in S : \A x \in S : x <= m

\* --add_page 3: a new BatchDOC tab, after the others.
AddPage(ps) ==
    Append(ps, [idx |-> Len(ps) + 1, kind |-> "BatchDOC", num |-> MaxOf(Serials(ps)) + 1])

\* --del_page <index>: the tab of that index goes and the tabs above it move down.
DelPage(ps, i) ==
    LET keep == SelectSeq(ps, LAMBDA e : e.idx # i)
    IN  [j \in 1..Len(keep) |->
            IF keep[j].idx > i THEN [keep[j] EXCEPT !.idx = @ - 1] ELSE keep[j]]

\* The index the remote application reads from the argument of --del_page.
ParseIndex(arg) == ParseU16(arg)

Victims(ps, i) == {ps[j].kind : j \in {n \in 1..Len(ps) : ps[n].idx = i}}

Permutations(n) == {f \in [1..n -> 1..n] : \A a, b \in 1..n : f[a] = f[b] => a = b}

MakePages(n, f, k) ==
    [i \in 1..n |->
        [idx |-> f[i], kind |-> k[i],
         num |-> Cardinality({j \in 1..i : k[j] = k[i]})]]

InitialPages ==
    UNION {{MakePages(n, f, k) : f \in Permutations(n), k \in [1..n -> Kinds]} :
           n \in 0..MaxPages}

-----------------------------------------------------------------------------
(* send_request: the request is lost ("send"), or it reaches the remote    *)
(* application and the response is read ("ok") or is not ("read").         *)

Outcomes == {"ok", "send", "read"}

Delivered(o) == o # "send"

RequestError(o) ==
    IF o = "send" THEN "Error sending request to Umi-OCR"
    ELSE "Error reading response from Umi-OCR"

Ok == [ok |-> TRUE, error |-> "", cause |-> ""]
Err(e, c) == [ok |-> FALSE, error |-> e, cause |-> c]
Running == [ok |-> FALSE, error |-> "", cause |-> "running"]

\* An entry of the history: a remote command with its index argument, what the
\* listing it fetched showed, and whether the call returned Ok; or a sleep.
Event(op, arg, shown, ack) == [op |-> op, arg |-> arg, shown |-> shown, ack |-> ack]
Sleep == Event("sleep", None, "", TRUE)

\* The settle delay is skipped.
ThenSleep_Skipped(e) == <<e>>

\* A call that returned Ok and the sleep(DELAY).await that follows it.
ThenSleep(e) == <<e, Sleep>>

\* A command as the remote application receives it.
Command(op, arg) == [op |-> op, arg |-> arg]

\* A state-changing command the remote application has received.
Post(cmd, o) == IF Delivered(o) THEN Append(pending, cmd) ELSE pending

\* The `?` operator: run returns the error.
Return(r) == pc' = "returned" /\ result' = r

-----------------------------------------------------------------------------
(* run, lines 118-132: the workspace lifecycle.                            *)

\* The indices are closed in the order of the listing.
CloseOrder_Forward(ix) == ix

\* indices.into_iter().rev()
CloseOrder(ix) == Rev(ix)

\* The loop stops one iteration early.
LoopDone_Early(ix, n) == n >= Len(ix) - 1

LoopDone(ix, n) == n >= Len(ix)

AfterListing(ix) == IF LoopDone(ix, 0) THEN "open" ELSE "close"

\* lines 119-123: the first listing and the indices of the stale tabs; tabs()
\* fails, or returns the listing.
Tabs ==
    /\ pc = "tabs"
    /\ \/ \E o \in Outcomes \ {"ok"} :
            /\ trace' = Append(trace, Event("all_pages", None, "", FALSE))
            /\ Return(Err(RequestError(o), "tabs"))
            /\ indices' = indices
       \/ \E ix \in {ExtractIndices(Listing(pages, padded))} :
            /\ trace' = Append(trace, Event("all_pages", None, "", TRUE))
            /\ indices' = ix
            /\ pc' = AfterListing(ix)
            /\ result' = result
    /\ UNCHANGED <<pages, pending, padded, processing, removed, closed, attempt,
                   fetches, delays, branch, observed, file, last_modified,
                   current_modified, exitCode>>
    /\ UNCHANGED FunctionVars

AfterClose(ix, n) == IF LoopDone(ix, n) THEN "open" ELSE "close"

\* lines 125-128 and 50-55: one iteration of the close loop.
CloseBatchOcr ==
    /\ pc = "close"
    /\ LET index == CloseOrder(indices)[closed + 1]
       IN  \E o \in Outcomes :
            /\ pending' = Post(Command("del_page", IndexToString(index)), o)
            /\ IF o = "ok"
               THEN /\ trace' = trace \o ThenSleep(Event("del_page", index, "", TRUE))
                    /\ closed' = closed + 1
                    /\ pc' = AfterClose(indices, closed')
                    /\ result' = result
               ELSE /\ trace' = Append(trace, Event("del_page", index, "", FALSE))
                    /\ Return(Err(RequestError(o), "close_batch_ocr"))
                    /\ closed' = closed
    /\ UNCHANGED <<pages, padded, processing, removed, indices, attempt, fetches,
                   delays, branch, observed, file, last_modified, current_modified,
                   exitCode>>
    /\ UNCHANGED FunctionVars

\* lines 130-131 and 43-48.
OpenBatchOcr ==
    /\ pc = "open"
    /\ \E o \in Outcomes :
        /\ pending' = Post(Command("add_page", <<"3">>), o)
        /\ IF o = "ok"
           THEN /\ trace' = trace \o ThenSleep(Event("add_page", None, "", TRUE))
                /\ pc' = "verify"
                /\ result' = result
           ELSE /\ trace' = Append(trace, Event("add_page", None, "", FALSE))
                /\ Return(Err(RequestError(o), "open_batch_ocr"))
    /\ UNCHANGED <<pages, padded, processing, removed, indices, closed, attempt,
                   fetches, delays, branch, observed, file, last_modified,
                   current_modified, exitCode>>
    /\ UNCHANGED FunctionVars

\* The result of the search is not looked at.
Found_Always(text) == TRUE

\* regex.find(..).is_some(), line 81
Found(text) == FreshRegexFinds(text)

\* One attempt too many.
LastAttempt_OffByOne(a) == a > MAX_ATTEMPTS

\* The loop has no upper bound.
LastAttempt_Never(a) == FALSE

\* for attempt in 1..=MAX_ATTEMPTS
LastAttempt(a) == a >= MAX_ATTEMPTS

\* What a listing fetched by verify showed, for the history.
Shown(text) == IF FreshRegexFinds(text) THEN "hit" ELSE "miss"

\* lines 78-92: one iteration of the loop of verify.
Verify ==
    /\ pc = "verify"
    /\ fetches' = fetches + 1
    /\ \E o \in Outcomes :
        IF o # "ok"
        THEN /\ Return(Err(RequestError(o), "verify"))
             /\ trace' = Append(trace, Event("all_pages", None, "", FALSE))
             /\ UNCHANGED <<attempt, delays>>
        ELSE LET text == Listing(pages, padded)
             IN  IF Found(text)
                 THEN /\ pc' = "add_docs"
                      /\ trace' = Append(trace, Event("all_pages", None, Shown(text), TRUE))
                      /\ UNCHANGED <<attempt, delays, result>>
                 ELSE /\ delays' = delays + 1
                      /\ trace' = trace \o ThenSleep(Event("all_pages", None, Shown(text), TRUE))
                      /\ IF LastAttempt(attempt)
                         THEN /\ Return(Err("Max attempts reached", "verify"))
                              /\ attempt' = attempt
                         ELSE /\ attempt' = attempt + 1
                              /\ UNCHANGED <<pc, result>>
    /\ UNCHANGED <<pages, pending, padded, processing, removed, indices, closed,
                   branch, observed, file, last_modified, current_modified,
                   exitCode>>
    /\ UNCHANGED FunctionVars

-----------------------------------------------------------------------------
(* run, lines 134-139: the job submission.                                 *)

\* lines 136-137 and 57-69.
AddDocs ==
    /\ pc = "add_docs"
    /\ \E o \in Outcomes :
        /\ pending' = Post(Command("addDocs", <<>>), o)
        /\ IF o = "ok"
           THEN /\ trace' = trace \o ThenSleep(Event("addDocs", None, "", TRUE))
                /\ pc' = "doc_start"
                /\ result' = result
           ELSE /\ trace' = Append(trace, Event("addDocs", None, "", FALSE))
                /\ Return(Err(RequestError(o), "add_docs"))
    /\ UNCHANGED <<pages, padded, processing, removed, indices, closed, attempt,
                   fetches, delays, branch, observed, file, last_modified,
                   current_modified, exitCode>>
    /\ UNCHANGED FunctionVars

\* lines 139 and 71-76.
DocStart ==
    /\ pc = "doc_start"
    /\ \E o \in Outcomes :
        /\ trace' = Append(trace, Event("docStart", None, "", o = "ok"))
        /\ pending' = Post(Command("docStart", <<>>), o)
        /\ IF o = "ok"
           THEN pc' = "watch_output" /\ result' = result
           ELSE Return(Err(RequestError(o), "doc_start"))
    /\ UNCHANGED <<pages, padded, processing, removed, indices, closed, attempt,
                   fetches, delays, branch, observed, file, last_modified,
                   current_modified, exitCode>>
    /\ UNCHANGED FunctionVars

-----------------------------------------------------------------------------
(* watch_output, lines 94-116.  A query of the filesystem may be denied    *)
(* (a permission error): Path::exists then answers false and fs::metadata  *)
(* returns the error.                                                      *)

PathExists(f, denied) == IF f # NoFile /\ ~denied THEN "yes" ELSE "no"

Metadata(f, denied) ==
    IF denied THEN Err("PermissionDenied", "metadata")
    ELSE IF f = NoFile THEN Err("NotFound", "metadata")
    ELSE Ok

\* The two modification times are not compared.
Overwritten_Always(current, last) == TRUE

\* current_modified != last_modified, line 103
Overwritten(current, last) == current # last

BranchOf(seen) == IF seen = "yes" THEN "mtime" ELSE "exists"

\* line 95: the branch is chosen.
WatchOutput ==
    /\ pc = "watch_output"
    /\ \E denied \in BOOLEAN :
        /\ observed' = PathExists(file, denied)
        /\ branch' = BranchOf(observed')
        /\ pc' = IF branch' = "mtime" THEN "watch_baseline" ELSE "watch_exists"
    /\ UNCHANGED <<pages, pending, padded, processing, removed, indices, closed,
                   attempt, fetches, delays, trace, file, last_modified,
                   current_modified, result, exitCode>>
    /\ UNCHANGED FunctionVars

\* lines 96-97: the recorded modification time.
WatchBaseline ==
    /\ pc = "watch_baseline"
    /\ \E denied \in BOOLEAN :
        LET m == Metadata(file, denied)
        IN  IF m.ok
            THEN /\ last_modified' = file
                 /\ pc' = "watch_mtime"
                 /\ result' = result
            ELSE /\ Return(m)
                 /\ last_modified' = last_modified
    /\ UNCHANGED <<pages, pending, padded, processing, removed, indices, closed,
                   attempt, fetches, delays, trace, branch, observed, file,
                   current_modified, exitCode>>
    /\ UNCHANGED FunctionVars

\* lines 99-107: one iteration of the loop of the first branch.
PollModified ==
    /\ pc = "watch_mtime"
    /\ \E denied \in BOOLEAN :
        LET m == Metadata(file, denied)
        IN  IF m.ok
            THEN /\ current_modified' = file
                 /\ IF Overwritten(current_modified', last_modified)
                    THEN Return(Ok)
                    ELSE UNCHANGED <<pc, result>>
            ELSE /\ Return(m)
                 /\ current_modified' = current_modified
    /\ UNCHANGED <<pages, pending, padded, processing, removed, indices, closed,
                   attempt, fetches, delays, trace, branch, observed, file,
                   last_modified, exitCode>>
    /\ UNCHANGED FunctionVars

\* lines 110-112: one test of the loop condition of the second branch.
PollExists ==
    /\ pc = "watch_exists"
    /\ \E denied \in BOOLEAN :
        /\ observed' = PathExists(file, denied)
        /\ IF observed' = "yes"
           THEN Return(Ok)
           ELSE UNCHANGED <<pc, result>>
    /\ UNCHANGED <<pages, pending, padded, processing, removed, indices, closed,
                   attempt, fetches, delays, trace, branch, file,
                   last_modified, current_modified, exitCode>>
    /\ UNCHANGED FunctionVars

-----------------------------------------------------------------------------
(* main, lines 151-159.                                                    *)

\* The error is printed and the process still exits with 0.
ExitCode_AlwaysZero(r) == 0

ExitCode(r) == IF r.ok THEN 0 ELSE 1

Main ==
    /\ pc = "returned"
    /\ exitCode' = ExitCode(result)
    /\ pc' = "exit"
    /\ UNCHANGED <<pages, pending, padded, processing, removed, indices, closed,
                   attempt, fetches, delays, trace, branch, observed, file,
                   last_modified, current_modified, result>>
    /\ UNCHANGED FunctionVars

-----------------------------------------------------------------------------
(* The environment: the remote application applies the commands it has     *)
(* acknowledged, in their order, at its own pace; once it processes the    *)
(* document it writes the output file.                                     *)

ProgramVars == <<pc, indices, closed, attempt, fetches, delays, trace, branch, observed,
                 last_modified, current_modified, result, exitCode, FunctionVars>>

ApplyDelPage ==
    /\ pending # <<>>
    /\ Head(pending).op = "del_page"
    /\ LET i == ParseIndex(Head(pending).arg)
       IN  /\ pages' = DelPage(pages, i)
           /\ removed' = removed \cup Victims(pages, i)
    /\ pending' = Tail(pending)
    /\ UNCHANGED <<padded, processing, file>>
    /\ UNCHANGED ProgramVars

ApplyAddPage ==
    /\ pending # <<>>
    /\ Head(pending).op = "add_page"
    /\ pages' = AddPage(pages)
    /\ pending' = Tail(pending)
    /\ UNCHANGED <<padded, processing, removed, file>>
    /\ UNCHANGED ProgramVars

ApplyAddDocs ==
    /\ pending # <<>>
    /\ Head(pending).op = "addDocs"
    /\ pending' = Tail(pending)
    /\ UNCHANGED <<pages, padded, processing, removed, file>>
    /\ UNCHANGED ProgramVars

ApplyDocStart ==
    /\ pending # <<>>
    /\ Head(pending).op = "docStart"
    /\ processing' = TRUE
    /\ pending' = Tail(pending)
    /\ UNCHANGED <<pages, padded, removed, file>>
    /\ UNCHANGED ProgramVars

WriteOutput ==
    /\ processing
    /\ \E t \in 0..MaxMtime : t # file /\ file' = t
    /\ UNCHANGED <<pages, pending, padded, processing, removed>>
    /\ UNCHANGED ProgramVars

DeleteOutput ==
    /\ processing
    /\ file # NoFile
    /\ file' = NoFile
    /\ UNCHANGED <<pages, pending, padded, processing, removed>>
    /\ UNCHANGED ProgramVars

-----------------------------------------------------------------------------

Init ==
    /\ pc = "tabs"
    /\ pages \in InitialPages
    /\ pending = <<>>
    /\ padded \in BOOLEAN
    /\ processing = FALSE
    /\ removed = {}
    /\ indices = <<>>
    /\ closed = 0
    /\ attempt = 1
    /\ fetches = 0
    /\ delays = 0
    /\ trace = <<>>
    /\ branch = "none"
    /\ observed = "none"
    /\ file \in {NoFile, 0}
    /\ last_modified = None
    /\ current_modified = None
    /\ result = Running
    /\ exitCode = None
    /\ listing = <<>>
    /\ found = "none"
    /\ path = <<>>
    /\ separator = "/"
    /\ normalized = <<>>
    /\ watched = <<>>

Lifecycle == Tabs \/ CloseBatchOcr \/ OpenBatchOcr \/ Verify

Submission == AddDocs \/ DocStart

Watch == WatchOutput \/ WatchBaseline \/ PollModified \/ PollExists

Remote == ApplyDelPage \/ ApplyAddPage \/ ApplyAddDocs \/ ApplyDocStart

Filesystem == WriteOutput \/ DeleteOutput

Next == Lifecycle \/ Submission \/ Watch \/ Main \/ Remote \/ Filesystem

Spec == Init /\ [][Next]_vars

\* The lifecycle and the submission run whenever they can: every remote call
\* returns and every sleep ends.  Nothing is assumed of the remote application.
FairSpec == Spec /\ WF_vars(Lifecycle \/ Submission)

\* A step of watch_output whose query of the filesystem does not fail.
Polled == Watch /\ (pc' = "returned" => result'.ok)

\* The poll loops of watch_output run too: every sleep ends, and the filesystem
\* does not fail every query.
WatchSpec == FairSpec /\ WF_vars(Polled)

-----------------------------------------------------------------------------
(* The two regexes on their own: a listing of up to MaxLines lines, each   *)
(* an index column, a gap and a name, is handed to the extraction of run   *)
(* (lines 119-123) and to the search of verify (lines 79-81).              *)

Heads == {<<>>, <<"1">>, <<"2">>, <<"6", "5", "5", "3", "6">>, <<"U+0663">>}
Gaps == {<<>>, <<" ">>}
Names ==
    {<<>>, TAB_NAME \o <<"_">>, TAB_NAME \o <<"_", "1">>,
     TAB_NAME \o <<"_", "U+0663">>, KindName("BatchOCR") \o <<"_", "1">>}

Lines == {h \o g \o n \o <<"\n">> : h \in Heads, g \in Gaps, n \in Names}

RECURSIVE Texts(_)
Texts(n) ==
    IF n = 0 THEN {<<>>}
    ELSE LET shorter == Texts(n - 1)
         IN  shorter \cup {l \o t : l \in Lines, t \in shorter}

\* The variables of the run that neither function touches.
RunVars == <<pages, pending, padded, processing, removed, closed, attempt, fetches,
             delays, trace, branch, observed, file, last_modified, current_modified,
             result, exitCode>>

\* The run at rest: nothing listed, nothing sent, nothing watched.
AtRest ==
    /\ pages = <<>>
    /\ pending = <<>>
    /\ padded = FALSE
    /\ processing = FALSE
    /\ removed = {}
    /\ indices = <<>>
    /\ closed = 0
    /\ attempt = 1
    /\ fetches = 0
    /\ delays = 0
    /\ trace = <<>>
    /\ branch = "none"
    /\ observed = "none"
    /\ file = NoFile
    /\ last_modified = None
    /\ current_modified = None
    /\ result = Running
    /\ exitCode = None

\* lines 119-123 on the listing.
ExtractStale ==
    /\ pc = "extract"
    /\ indices' = ExtractIndices(listing)
    /\ pc' = "find"
    /\ UNCHANGED <<RunVars, FunctionVars>>

\* line 81 on the listing.
FindFresh ==
    /\ pc = "find"
    /\ found' = (IF Found(listing) THEN "yes" ELSE "no")
    /\ pc' = "scanned"
    /\ UNCHANGED <<RunVars, indices, listing, path, separator, normalized, watched>>

TextInit ==
    /\ pc = "extract"
    /\ AtRest
    /\ listing \in Texts(MaxLines)
    /\ found = "none"
    /\ path = <<>>
    /\ separator = "/"
    /\ normalized = <<>>
    /\ watched = <<>>

TextNext == ExtractStale \/ FindFresh

TextSpec == TextInit /\ [][TextNext]_vars

-----------------------------------------------------------------------------
(* The path of the document, run lines 134-145.  After line 134 the path   *)
(* holds no backslash, so "/" is its only separator on every platform; a   *)
(* drive prefix is not told apart from a name.  std::path skips empty and  *)
(* "." components, except a leading ".".                                   *)

\* str::replace("\\", "/")
ReplaceBackslash(s) == [i \in 1..Len(s) |-> IF s[i] = "\\" THEN "/" ELSE s[i]]

\* Components::len_before_body: the root, or the leading "." of a relative path.
LenBeforeBody(p) ==
    IF p # <<>> /\ p[1] = "/" THEN 1
    ELSE IF p = <<".">> \/ (Len(p) >= 2 /\ p[1] = "." /\ p[2] = "/") THEN 1
    ELSE 0

\* Where the component that ends at e begins, in the body of p.
RECURSIVE ComponentStart(_, _)
ComponentStart(p, e) ==
    IF e <= LenBeforeBody(p) \/ p[e] = "/" THEN e + 1 ELSE ComponentStart(p, e - 1)

\* What is left of p[1..e] once the component that begins at b, and the
\* separator before it, are taken off.
Without(p, b) == IF b > LenBeforeBody(p) + 1 THEN b - 2 ELSE LenBeforeBody(p)

\* Components::trim_right, and the skipping of next_back: the end of p[1..e]
\* once the empty and "." components at its end are taken off.
RECURSIVE TrimRight(_, _)
TrimRight(p, e) ==
    IF e <= LenBeforeBody(p) THEN e
    ELSE LET b == ComponentStart(p, e)
         IN  IF SubSeq(p, b, e) \in {<<>>, <<".">>}
             THEN TrimRight(p, Without(p, b))
             ELSE e

\* The last component of p, if it is a normal one: Path::file_name.
FileNameSpan(p) ==
    LET e == TrimRight(p, Len(p))
        b == ComponentStart(p, e)
    IN  IF e <= LenBeforeBody(p) \/ SubSeq(p, b, e) = <<".", ".">>
        THEN [some |-> FALSE, from |-> 0, to |-> 0]
        ELSE [some |-> TRUE, from |-> b, to |-> e]

\* The place of the last "." of p[b..e], or 0.
RECURSIVE LastDot(_, _, _)
LastDot(p, b, e) ==
    IF e < b THEN 0 ELSE IF p[e] = "." THEN e ELSE LastDot(p, b, e - 1)

\* Where the file stem ends: rsplit_file_at_dot.  A name with no "." or with
\* its only "." in front is all stem.
StemEnd(p, b, e) ==
    LET d == LastDot(p, b, e)
    IN  IF d = 0 \/ d = b THEN e ELSE d - 1

\* Path::with_extension(""): the path is cut right after the file stem; a path
\* with no file name is left as it is.
WithExtensionEmpty(p) ==
    LET f == FileNameSpan(p)
    IN  IF f.some THEN SubSeq(p, 1, StemEnd(p, f.from, f.to)) ELSE p

\* Path::parent of a path that has a file name.
Parent(p) ==
    LET f == FileNameSpan(p)
    IN  SubSeq(p, 1, TrimRight(p, Without(p, f.from)))

\* PathBuf::push of a relative name.
Push(p, name, sep) ==
    IF p # <<>> /\ p[Len(p)] # "/" THEN p \o <<sep>> \o name ELSE p \o name

\* Path::with_file_name: set_file_name pops the file name, if any, and pushes.
WithFileName(p, name, sep) ==
    Push(IF FileNameSpan(p).some THEN Parent(p) ELSE p, name, sep)

LayeredPdf == <<".", "l", "a", "y", "e", "r", "e", "d", ".", "p", "d", "f">>

\* lines 141-145; unwrap panics when path_rm_ext has no file name.
OutputPath(p, sep) ==
    LET path_rm_ext == WithExtensionEmpty(p)
        f == FileNameSpan(path_rm_ext)
        file_name == SubSeq(path_rm_ext, f.from, f.to)
        output_path == WithFileName(p, file_name \o LayeredPdf, sep)
    IN  IF f.some
        THEN [panic |-> FALSE, path |-> ReplaceBackslash(output_path)]
        ELSE [panic |-> TRUE, path |-> <<>>]

\* The two paths the documentation of the program gives.
Examples ==
    {<<"C", ":", "\\", "d", "o", "c", "s", "\\", "r", "e", "p", "o", "r", "t", ".", "p", "d", "f">>,
     <<"a", "/", "b", "/", "f", "i", "l", "e", ".", "t", "a", "r", ".", "g", "z">>}

PathChars == {"a", ".", "/", "\\"}

Paths == Examples \cup UNION {[1..n -> PathChars] : n \in 0..MaxPathLen}

\* line 134.
NormalizePath ==
    /\ pc = "normalize"
    /\ normalized' = ReplaceBackslash(path)
    /\ pc' = "derive"
    /\ UNCHANGED <<RunVars, indices, listing, found, path, separator, watched>>

\* lines 141-145.
DeriveOutput ==
    /\ pc = "derive"
    /\ LET out == OutputPath(normalized, separator)
       IN  IF out.panic
           THEN pc' = "panicked" /\ watched' = watched
           ELSE pc' = "derived" /\ watched' = out.path
    /\ UNCHANGED <<RunVars, indices, listing, found, path, separator, normalized>>

PathInit ==
    /\ pc = "normalize"
    /\ AtRest
    /\ listing = <<>>
    /\ found = "none"
    /\ path \in Paths
    /\ separator \in {"/", "\\"}
    /\ normalized = <<>>
    /\ watched = <<>>

PathNext == NormalizePath \/ DeriveOutput

PathSpec == PathInit /\ [][PathNext]_vars

-----------------------------------------------------------------------------
(* What the history shows.                                                 *)

At(op) == {i \in 1..Len(trace) : trace[i].op = op}

CloseEvents == SelectSeq(trace, LAMBDA e : e.op = "del_page")

ClosedIndices == [i \in 1..Len(CloseEvents) |-> CloseEvents[i].arg]

\* The listings verify has read, each "hit" or "miss".
VerifyListings ==
    SelectSeq(trace, LAMBDA e : e.op = "all_pages" /\ e.shown # "")

Returned == pc \in {"returned", "exit"}

VerifyTimedOut == Returned /\ result.error = "Max attempts reached"

VerifySucceeded == At("addDocs") # {} \/ pc = "add_docs"

-----------------------------------------------------------------------------
(* The claims.                                                             *)

\* C1: whenever verify has returned success and add-document is about to be
\* issued, the remote application's tab list holds exactly one BatchDOC_ tab.
C1_ExactlyOneFreshEntry == pc = "add_docs" => DocCount(pages) = 1

\* C2: every tab a --del_page command of run removes is a BatchDOC_ tab: no tab
\* of another name is ever removed.
C2_OnlyReservedRemoved == removed \subseteq {"BatchDOC"}

\* C3: the indices of the successive close commands are strictly descending.
C3_StrictlyDescending ==
    \A i \in 1..Len(ClosedIndices) - 1 : ClosedIndices[i] > ClosedIndices[i + 1]

\* C4: every close command for the stale indices of the first listing is issued
\* before the one open command and none after it; with no stale index no close
\* is ever issued and the open is the first state-changing command.
C4_ClosesBeforeOpen ==
    /\ Cardinality(At("add_page")) <= 1
    /\ \A c \in At("del_page"), o \in At("add_page") : c < o
    /\ At("add_page") # {} => ClosedIndices = Rev(indices)
    /\ indices = <<>> => At("del_page") = {}
    /\ \A j \in At("addDocs") \cup At("docStart") : \E o \in At("add_page") : o < j

C4_TwoClosesThenOpen ==
    /\ indices = <<1, 3>>
    /\ ClosedIndices = <<3, 1>>
    /\ At("add_page") # {}

\* C5: verify fetches at most MAX_ATTEMPTS listings; it returns success at the
\* first listing that shows the entry, the k-th, after k fetches and k-1 delays,
\* and fetches no more; it times out after MAX_ATTEMPTS listings without it.
C5_VerifyAttempts ==
    LET ls == VerifyListings
        n == Len(ls)
    IN  /\ fetches <= MAX_ATTEMPTS
        /\ n <= fetches
        /\ \A i \in 1..n - 1 : ls[i].shown = "miss"
        /\ (n > 0 /\ ls[n].shown = "hit") =>
                VerifySucceeded /\ fetches = n /\ delays = n - 1
        /\ VerifySucceeded => n > 0 /\ ls[n].shown = "hit"
        /\ (n = MAX_ATTEMPTS /\ ls[n].shown = "miss") =>
                VerifyTimedOut /\ fetches = MAX_ATTEMPTS
        /\ VerifyTimedOut => n = MAX_ATTEMPTS /\ ls[n].shown = "miss"

C5_FoundOnSecondAttempt ==
    /\ pc = "add_docs"
    /\ fetches = 2
    /\ delays = 1
    /\ Len(VerifyListings) = 2
    /\ VerifyListings[1].shown = "miss"

\* C6: add-document is issued only after a listing fetched after the open showed
\* the entry; start-processing only after add-document was acknowledged; each of
\* the two is issued at most once.
C6_SubmissionOrder ==
    /\ Cardinality(At("addDocs")) <= 1
    /\ Cardinality(At("docStart")) <= 1
    /\ \A a \in At("addDocs") :
        \E o \in At("add_page"), v \in At("all_pages") :
            o < v /\ v < a /\ trace[v].shown = "hit"
    /\ \A d \in At("docStart") :
        \E a \in At("addDocs") : a < d /\ trace[a].ack
    /\ pc \in {"add_docs", "doc_start"} =>
        \E o \in At("add_page"), v \in At("all_pages") :
            o < v /\ trace[v].shown = "hit"

C6_BothIssued == At("docStart") # {} /\ trace[Len(trace)].ack

\* The calls of the history that returned Err.
Unacked == {i \in 1..Len(trace) : ~trace[i].ack}

\* What holds of a failed run and of the exit code, in every state.
C7_Failed ==
    /\ \A i \in Unacked : i = Len(trace) /\ Returned /\ ~result.ok
    /\ Unacked # {} \/ VerifyTimedOut =>
        /\ branch = "none"
        /\ observed = "none"
        /\ last_modified = None
        /\ current_modified = None
    /\ Returned /\ ~result.ok => result.error # ""
    /\ pc = "exit" => exitCode = (IF result.ok THEN 0 ELSE 1)
    /\ pc # "exit" => exitCode = None
    /\ exitCode = 0 => result.ok /\ branch \in {"mtime", "exists"}

\* Once run has returned the program does nothing but exit.
C7_Stopped ==
    Returned =>
        /\ UNCHANGED <<trace, indices, closed, attempt, fetches, delays, branch,
                       observed, last_modified, current_modified, result>>
        /\ pending' = pending \/ pending' = Tail(pending)
        /\ pc' \in {pc, "exit"}

\* C7: once a step has failed, run issues no further remote command and makes no
\* filesystem query, and the process exits with 1; it exits with 0 only when the
\* completion watcher returned success.
C7_FailureStops == []C7_Failed /\ [][C7_Stopped]_vars

C7_CloseFailed ==
    /\ pc = "exit"
    /\ exitCode = 1
    /\ \E i \in Unacked : trace[i].op = "del_page"

\* What holds of each branch of watch_output, in every state.
C8_Branches ==
    /\ branch = "mtime" =>
        /\ observed = "yes"
        /\ Returned /\ result.ok =>
            /\ last_modified # None
            /\ current_modified # None
            /\ current_modified # last_modified
        /\ pc = "watch_mtime" => current_modified \in {None, last_modified}
    /\ branch = "exists" =>
        /\ (Returned /\ result.ok) <=> observed = "yes"
        /\ last_modified = None /\ current_modified = None
        /\ ~Returned => pc = "watch_exists"

\* The branch, once chosen, stays.
C8_BranchKept == branch # "none" => branch' = branch

\* C8: watch_output chooses its branch once; in the branch of an existing file
\* it returns success only at a poll that reads a modification time other than
\* the recorded one; in the other branch it returns success at the first poll
\* that sees the path, reading no modification time.
C8_WatchBranches == []C8_Branches /\ [][C8_BranchKept]_vars

C8_OverwriteSeen ==
    /\ branch = "mtime"
    /\ Returned /\ result.ok
    /\ last_modified = 0
    /\ current_modified = 1

\* C9: a poll of the watcher that finds the output file absent is "not yet" and
\* never an error: run never returns the filesystem's not-found error.
C9_AbsentIsNotAnError == ~(Returned /\ result.error = "NotFound")

\* The remote commands of a run, counted.
C10_Bounded ==
    /\ Cardinality(At("all_pages")) <= 1 + MAX_ATTEMPTS
    /\ Cardinality(At("del_page")) <= Len(indices)
    /\ Cardinality(At("add_page")) <= 1
    /\ Cardinality(At("addDocs")) <= 1
    /\ Cardinality(At("docStart")) <= 1

\* C10: the lifecycle and the submission end: the run reaches the watcher or
\* returns an error after at most one first listing, one close per stale index,
\* one open, MAX_ATTEMPTS verification listings, one add-document and one
\* start-processing, whatever the remote application does.
C10_Terminates ==
    []C10_Bounded /\ <>(pc \notin {"tabs", "close", "open", "verify", "add_docs", "doc_start"})

C10_NeverShown ==
    /\ VerifyTimedOut
    /\ pending # <<>>
    /\ Head(pending).op = "add_page"

\* C14: between any two close commands of a run a listing is fetched: no index
\* taken from a listing that predates a close is used for a later close.
C14_FreshListingPerClose ==
    \A c, d \in At("del_page") :
        c < d => \E l \in At("all_pages") : c < l /\ l < d

\* The commands that change the state of the remote application.
StateChanging == {"del_page", "add_page", "addDocs", "docStart"}

\* C15: a settle delay follows every acknowledged close, open and add-document
\* at once; whatever run does after a state-changing command, it has slept
\* first; every listing of verify is preceded by a delay.
C15_SettleDelays ==
    /\ \A i \in 1..Len(trace) :
        trace[i].op \in StateChanging \ {"docStart"} /\ trace[i].ack =>
            i < Len(trace) /\ trace[i + 1].op = "sleep"
    /\ \A i \in 1..Len(trace) - 1 :
        trace[i].op \in StateChanging => trace[i + 1].op = "sleep"
    /\ \A v \in At("all_pages") : v > 1 => trace[v - 1].op = "sleep"

C15_FullRun ==
    /\ At("docStart") # {}
    /\ Cardinality(At("del_page")) = 2
    /\ Cardinality(At("sleep")) = 5

\* C16: from a listing whose lines have a space before the index, the first
\* listing of run yields the indices it yields from the same lines without it.
C16_PaddedLineExtracted ==
    (Len(trace) = 1 /\ trace[1].ack) =>
        indices = ExtractIndices(Listing(pages, FALSE))

\* What holds of the close commands, in every state.
C17_Closes ==
    /\ Len(ClosedIndices) <= Len(indices)
    /\ \A i \in 1..Len(ClosedIndices) :
        ClosedIndices[i] = indices[Len(indices) + 1 - i]
    /\ (Unacked = {} /\ pc \notin {"tabs", "close"}) => ClosedIndices = Rev(indices)
    /\ \A l \in At("all_pages"), c \in At("del_page") : l = 1 \/ c < l

\* The indices are those of the first listing and are set once.
C17_Cached ==
    indices' # indices =>
        pc = "tabs" /\ indices' = ExtractIndices(Listing(pages, padded))

\* C17: with no failed call, the close commands carry exactly the indices
\* extracted from the first listing, each occurrence once, in the reverse of
\* their order in the listing; no listing is fetched between two closes.
C17_ClosesCachedIndices == []C17_Closes /\ [][C17_Cached]_vars

C17_ThreeClosed ==
    /\ pc = "open"
    /\ indices = <<2, 3, 1>>
    /\ ClosedIndices = <<1, 3, 2>>

\* C18: if the output file is written after start-processing was acknowledged
\* (a modification time above 0 is that of such a write) and then left alone,
\* watch_output eventually returns.
C18_RewriteSeen == \A t \in 1..MaxMtime : <>[](file = t) => <>Returned

-----------------------------------------------------------------------------
(* The claims about the two regexes, under TextSpec.                       *)

RECURSIVE LineEnd(_, _)
LineEnd(t, p) == IF p > Len(t) \/ t[p] = "\n" THEN p ELSE LineEnd(t, p + 1)

\* The lines of a text: what stands between its newlines.
RECURSIVE LinesOf(_)
LinesOf(t) ==
    IF t = <<>> THEN <<>>
    ELSE LET e == LineEnd(t, 1)
         IN  <<SubSeq(t, 1, e - 1)>> \o LinesOf(SubSeq(t, e + 1, Len(t)))

RECURSIVE Numeral(_)
Numeral(d) ==
    IF d = <<>> THEN 0
    ELSE Numeral(SubSeq(d, 1, Len(d) - 1)) * 10 + DigitValue(d[Len(d)])

\* The index a digit sequence denotes, if it is one of 16 bits.
C11_Index(d) ==
    IF \E i \in 1..Len(d) : d[i] \notin AsciiDigit THEN None
    ELSE IF Numeral(d) > U16_MAX THEN None
    ELSE Numeral(d)

\* The index of a line of the form <digits><whitespace>BatchDOC_..., or None.
C11_LineIndex(line) ==
    LET q == RunEnd(line, 1, Digit)
        r == RunEnd(line, q, Space)
    IN  IF q > 1 /\ r > q /\ HasLiteral(line, r, StaleLiteral)
        THEN C11_Index(SubSeq(line, 1, q - 1))
        ELSE None

C11_Expected(t) ==
    LET lines == LinesOf(t)
    IN  SelectSeq([i \in 1..Len(lines) |-> C11_LineIndex(lines[i])],
                  LAMBDA v : v # None)

\* C11: the extraction yields the indices of the lines of the form
\* <digits><whitespace>BatchDOC_... whose digits are a 16-bit index, one per
\* such line, in the order of the listing, and nothing else.
C11_LineByLine ==
    pc \in {"find", "scanned"} => indices = C11_Expected(listing)

\* BatchDOC, an underscore and one or more digits.
C12_FreshName(s) ==
    /\ Len(s) > Len(TAB_NAME) + 1
    /\ SubSeq(s, 1, Len(TAB_NAME) + 1) = TAB_NAME \o <<"_">>
    /\ \A i \in Len(TAB_NAME) + 2..Len(s) : s[i] \in Digit

C12_InLine(line) ==
    \E i \in 1..Len(line) : \E j \in i..Len(line) : C12_FreshName(SubSeq(line, i, j))

C12_Contains(t) ==
    LET lines == LinesOf(t)
    IN  \E k \in 1..Len(lines) : C12_InLine(lines[k])

\* C12: the search of verify answers yes exactly for the texts that hold, at
\* some place of some line, BatchDOC, an underscore and one or more digits.
C12_FreshCheck ==
    /\ pc = "scanned" => (found = "yes" <=> C12_Contains(listing))
    /\ pc = "scanned" => found \in {"yes", "no"}

C12_FoundInsideLine ==
    /\ pc = "scanned"
    /\ found = "yes"
    /\ indices = <<>>
    /\ listing = <<"1">> \o TAB_NAME \o <<"_", "1", "\n">>

-----------------------------------------------------------------------------
(* The claim about the paths, under PathSpec.                              *)

\* The place of the last "/" of s, or 0.
RECURSIVE LastSlash(_, _)
LastSlash(s, e) ==
    IF e = 0 THEN 0 ELSE IF s[e] = "/" THEN e ELSE LastSlash(s, e - 1)

\* The path with its backslashes replaced, its directory part kept, the last
\* extension of its file name removed and ".layered.pdf" appended.  A name
\* whose only "." is in front has no extension.
C13_Expected(p) ==
    LET n == ReplaceBackslash(p)
        k == LastSlash(n, Len(n))
        d == LastDot(n, k + 1, Len(n))
        stem == IF d = 0 \/ d = k + 1 THEN Len(n) ELSE d - 1
    IN  SubSeq(n, 1, stem) \o LayeredPdf

\* C13: whatever the path, run sends it with every backslash replaced and
\* watches the path that keeps the directory part, drops the last extension of
\* the file name and ends in ".layered.pdf".
C13_OutputPath ==
    /\ pc \in {"derive", "derived", "panicked"} =>
        \A i \in 1..Len(path) :
            normalized[i] = (IF path[i] = "\\" THEN "/" ELSE path[i])
    /\ pc # "panicked"
    /\ pc = "derived" => watched = C13_Expected(path)

====
